---- MODULE Spec2Model ----
(***************************************************************************)
(* Model of scripts/generate_timelapse_last7days: the batch job that       *)
(* gathers timestamped stills, computes the 7-day window anchored at a     *)
(* sunrise, classifies every frame and assembles the accepted ones into a  *)
(* video.  File names are sequences of one-character strings, instants are *)
(* pairs (day number since 2000-01-01, second of the day), frames are      *)
(* pixel patterns from which the classifier's measurements are computed.   *)
(***************************************************************************)
EXTENDS Integers, Sequences, FiniteSets, TLC

(* ------------------------------------------------------------------ *)
(* Bounds of the model                                                  *)
(* ------------------------------------------------------------------ *)
\* number of directory entries one run scans (both source roots together)
MaxFiles == 3

(* ------------------------------------------------------------------ *)
(* Program constants                                                    *)
(* ------------------------------------------------------------------ *)
MINUTES_BEFORE_SUNRISE == 5
FPS == 24
MIN_DIM == 100
MIN_STD == 8
BLACK_LEVEL == 15
WHITE_LEVEL == 240
\* the three ratios are 0.55 in the source; kept here in hundredths
PERCENT_BLACK == 55
PERCENT_WHITE == 55
DOMINANT_BIN_RATIO == 55
HALF_DIFF_THRESH == 60
LAPL_VAR_MAX == 1000000
\* timedelta(days=7) of compute_window_utc
WINDOW_DAYS == 7
\* time(6,0): the fallback sunrise, as a second of the local day
FALLBACK_SUNRISE_SEC == 21600
\* utcoffset of pytz.timezone("Europe/Madrid") attached with replace(tzinfo=tz):
\* the zone's first entry (local mean time, -0:15), in seconds
LMT_OFFSET_SEC == -900
SECS_PER_DAY == 86400

(* ------------------------------------------------------------------ *)
(* Characters and file names                                            *)
(* ------------------------------------------------------------------ *)
DigitSeq == <<"0", "1", "2", "3", "4", "5", "6", "7", "8", "9">>
DigitChars == {DigitSeq[i] : i \in 1..10}
DigitVal(c) == (CHOOSE i \in 1..10 : DigitSeq[i] = c) - 1
\* int() of a string of decimal digits
RECURSIVE IntOf(_)
IntOf(s) == IF s = <<>> THEN 0
            ELSE 10 * IntOf(SubSeq(s, 1, Len(s) - 1)) + DigitVal(s[Len(s)])

UpperSeq == <<"J", "P", "G", "N", "E", "T", "I", "F">>
LowerSeq == <<"j", "p", "g", "n", "e", "t", "i", "f">>
\* str.lower() on one character
LowerChar(c) == IF \E i \in 1..Len(UpperSeq) : UpperSeq[i] = c
                THEN LowerSeq[CHOOSE i \in 1..Len(UpperSeq) : UpperSeq[i] = c]
                ELSE c
Lower(s) == [i \in 1..Len(s) |-> LowerChar(s[i])]

\* Path.suffix: the part of the name from its last dot on ("" when the name
\* has no dot after its first character)
Suffix(name) ==
    LET dots == {i \in 2..Len(name) : name[i] = "."}
    IN  IF dots = {} THEN <<>>
        ELSE LET last == CHOOSE i \in dots : \A j \in dots : j <= i
             IN  SubSeq(name, last, Len(name))

\* exts of gather_images
exts == { <<".", "j", "p", "g">>, <<".", "j", "p", "e", "g">>, <<".", "p", "n", "g">>,
          <<".", "w", "e", "b", "p">>, <<".", "b", "m", "p">>,
          <<".", "t", "i", "f">>, <<".", "t", "i", "f", "f">> }

(* ------------------------------------------------------------------ *)
(* Timestamp patterns                                                   *)
(* ------------------------------------------------------------------ *)
\* start positions at which  \d{nd}_\d{6}  matches in name
MatchStarts(name, nd) ==
    {i \in 1..(Len(name) - nd - 6) :
        /\ \A k \in 0..(nd - 1) : name[i + k] \in DigitChars
        /\ name[i + nd] = "_"
        /\ \A k \in 1..6 : name[i + nd + k] \in DigitChars}
\* re.search: group(1) of the leftmost match, <<>> when there is none
Search(name, nd) ==
    LET starts == MatchStarts(name, nd)
    IN  IF starts = {} THEN <<>>
        ELSE LET i == CHOOSE i \in starts : \A j \in starts : i <= j
             IN  SubSeq(name, i, i + nd + 6)
PAT_8(name) == Search(name, 8)
PAT_6(name) == Search(name, 6)

\* Python's None for a timestamp string
NoTs == <<>>

\* extract_ts_from_name taking the first two digits of the date as the year
extract_ts_century_as_year(name) ==
    LET m8 == PAT_8(name)
    IN  IF m8 # <<>>
        THEN LET date8 == SubSeq(m8, 1, 8)
                 time6 == SubSeq(m8, 10, 15)
             IN  SubSeq(date8, 1, 2) \o SubSeq(date8, 5, 6) \o SubSeq(date8, 7, 8)
                 \o <<"_">> \o time6
        ELSE LET m6 == PAT_6(name)
             IN  IF m6 # <<>> THEN m6 ELSE NoTs

\* extract_ts_from_name searching PAT_6 before PAT_8
extract_ts_six_first(name) ==
    LET m6 == PAT_6(name)
    IN  IF m6 # <<>> THEN m6
        ELSE LET m8 == PAT_8(name)
             IN  IF m8 # <<>> THEN SubSeq(m8, 3, 15) ELSE NoTs

extract_ts_from_name(name) ==
    LET m8 == PAT_8(name)
    IN  IF m8 # <<>>
        THEN LET date8 == SubSeq(m8, 1, 8)
                 time6 == SubSeq(m8, 10, 15)
             IN  SubSeq(date8, 3, 4) \o SubSeq(date8, 5, 6) \o SubSeq(date8, 7, 8)
                 \o <<"_">> \o time6
        ELSE LET m6 == PAT_6(name)
             IN  IF m6 # <<>> THEN m6 ELSE NoTs

(* ------------------------------------------------------------------ *)
(* Instants                                                             *)
(* ------------------------------------------------------------------ *)
IsLeap(y) == y % 4 = 0 /\ (y % 100 # 0 \/ y % 400 = 0)
CumDays == <<0, 31, 59, 90, 120, 151, 181, 212, 243, 273, 304, 334>>
DaysInMonth(y, m) ==
    IF m = 2 THEN (IF IsLeap(y) THEN 29 ELSE 28)
    ELSE IF m \in {4, 6, 9, 11} THEN 30 ELSE 31
LeapsUpTo(n) == (n \div 4) - (n \div 100) + (n \div 400)
\* day number of the civil date y-m-d, 2000-01-01 being day 0
DaysFromCivil(y, m, d) ==
    (y - 2000) * 365 + (LeapsUpTo(y - 1) - LeapsUpTo(1999))
    + CumDays[m] + (IF m > 2 /\ IsLeap(y) THEN 1 ELSE 0) + (d - 1)

\* an instant (naive UTC datetime): day number and second of the day
Instant(d, s) == [d |-> d, s |-> s]
Leq(a, b) == a.d < b.d \/ (a.d = b.d /\ a.s <= b.s)
Lt(a, b) == a.d < b.d \/ (a.d = b.d /\ a.s < b.s)
\* datetime - timedelta(seconds=n), for 0 <= n
MinusSecs(t, n) ==
    LET total == t.s - n
    IN  IF total >= 0 THEN Instant(t.d, total)
        ELSE LET back == ((-total) + SECS_PER_DAY - 1) \div SECS_PER_DAY
             IN  Instant(t.d - back, total + back * SECS_PER_DAY)
\* datetime + timedelta(seconds=n), for 0 <= n
PlusSecs(t, n) ==
    Instant(t.d + ((t.s + n) \div SECS_PER_DAY), (t.s + n) % SECS_PER_DAY)
\* aware datetime (local wall clock, utcoffset off) -> naive UTC datetime
ToUtc(local, off) == IF off >= 0 THEN MinusSecs(local, off) ELSE PlusSecs(local, -off)

\* ts_to_datetime_utc: ok = FALSE stands for the ValueError that datetime()
\* raises on fields that are no calendar date or no time of day
ts_to_datetime_utc(tsYY) ==
    LET YY == SubSeq(tsYY, 1, 2)
        MM == SubSeq(tsYY, 3, 4)
        DD == SubSeq(tsYY, 5, 6)
        hh == SubSeq(tsYY, 8, 9)
        mm == SubSeq(tsYY, 10, 11)
        ss == SubSeq(tsYY, 12, 13)
        year == 2000 + IntOf(YY)
        valid == /\ IntOf(MM) \in 1..12
                 /\ IntOf(DD) \in 1..DaysInMonth(year, IntOf(MM))
                 /\ IntOf(hh) \in 0..23
                 /\ IntOf(mm) \in 0..59
                 /\ IntOf(ss) \in 0..59
    IN  IF valid
        THEN [ok |-> TRUE,
              t |-> Instant(DaysFromCivil(year, IntOf(MM), IntOf(DD)),
                            IntOf(hh) * 3600 + IntOf(mm) * 60 + IntOf(ss))]
        ELSE [ok |-> FALSE, t |-> Instant(0, 0)]

(* ------------------------------------------------------------------ *)
(* Frames                                                               *)
(* ------------------------------------------------------------------ *)
(* A decoded frame is h rows by w columns (w even).  Each half of the   *)
(* frame, left and right of column w/2, is a stack of equally high      *)
(* blocks; a block <<a, b>> is a pixel checkerboard of the gray values  *)
(* a and b (a uniform area when a = b).  Both halves have the same      *)
(* number of blocks, so every listed gray value covers the same number  *)
(* of pixels.  ok = FALSE is the None that cv2.imread returns for a     *)
(* file it cannot decode.                                               *)
Frame(h, w, left, right) == [ok |-> TRUE, h |-> h, w |-> w, left |-> left, right |-> right]
NoFrame == [ok |-> FALSE, h |-> 0, w |-> 0, left |-> <<>>, right |-> <<>>]

RECURSIVE BlockValues(_)
BlockValues(blocks) ==
    IF blocks = <<>> THEN <<>>
    ELSE <<blocks[1][1], blocks[1][2]>> \o BlockValues(Tail(blocks))
\* the gray image, as the list of its equally weighted gray values
Gray(frame) == BlockValues(frame.left) \o BlockValues(frame.right)

RECURSIVE SumSeq(_)
SumSeq(s) == IF s = <<>> THEN 0 ELSE s[1] + SumSeq(Tail(s))
Squares(s) == [i \in 1..Len(s) |-> s[i] * s[i]]
CountAtMost(s, level) == Cardinality({i \in 1..Len(s) : s[i] <= level})
CountAtLeast(s, level) == Cardinality({i \in 1..Len(s) : s[i] >= level})
CountEqual(s, v) == Cardinality({i \in 1..Len(s) : s[i] = v})
Abs(x) == IF x < 0 THEN -x ELSE x

\* the comparison of the low_std check turned around
StdAbove(gray, bound) ==
    LET n == Len(gray)
    IN  n * SumSeq(Squares(gray)) - SumSeq(gray) * SumSeq(gray) > bound * bound * n * n

\* np.std(gray) < bound, on the variance: n*sum(x^2) - sum(x)^2 < bound^2 * n^2
StdBelow(gray, bound) ==
    LET n == Len(gray)
    IN  n * SumSeq(Squares(gray)) - SumSeq(gray) * SumSeq(gray) < bound * bound * n * n
\* float(np.sum(gray <= level)) / total >= percent / 100
BlackRatioAtLeast(gray, level, percent) ==
    100 * CountAtMost(gray, level) >= percent * Len(gray)
WhiteRatioAtLeast(gray, level, percent) ==
    100 * CountAtLeast(gray, level) >= percent * Len(gray)
\* hist.max(): the pixel count of the fullest of the 256 one-value bins
HistMax(gray) ==
    LET counts == {CountEqual(gray, gray[i]) : i \in 1..Len(gray)}
    IN  CHOOSE c \in counts : \A e \in counts : e <= c
DomAtLeast(gray, percent) == 100 * HistMax(gray) >= percent * Len(gray)
\* variance of cv2.Laplacian(gray): inside a checkerboard block <<a, b>> the
\* Laplacian is 4(b-a) on one colour and 4(a-b) on the other, so its mean is 0
\* and its variance the mean of 16(a-b)^2 over the blocks
LapSquares(blocks) == [i \in 1..Len(blocks) |->
                          16 * (blocks[i][1] - blocks[i][2]) * (blocks[i][1] - blocks[i][2])]
LapVarAbove(frame, bound) ==
    LET blocks == frame.left \o frame.right
    IN  SumSeq(LapSquares(blocks)) > bound * Len(blocks)

Verdict(bad, why) == [bad |-> bad, why |-> why]

\* is_bad_frame with a half-frame check that looks at the difference of the
\* half means alone
is_bad_frame_half_diff_only(frame) ==
    IF ~frame.ok THEN Verdict(TRUE, "unreadable")
    ELSE IF frame.h < MIN_DIM \/ frame.w < MIN_DIM THEN Verdict(TRUE, "too_small")
    ELSE LET gray == Gray(frame)
             l == BlockValues(frame.left)
             r == BlockValues(frame.right)
    IN  IF StdBelow(gray, MIN_STD) THEN Verdict(TRUE, "low_std")
        ELSE IF BlackRatioAtLeast(gray, BLACK_LEVEL, PERCENT_BLACK) THEN Verdict(TRUE, "mostly_black")
        ELSE IF WhiteRatioAtLeast(gray, WHITE_LEVEL, PERCENT_WHITE) THEN Verdict(TRUE, "mostly_white")
        ELSE IF DomAtLeast(gray, DOMINANT_BIN_RATIO) THEN Verdict(TRUE, "dominant_bin")
        ELSE IF Abs(SumSeq(l) - SumSeq(r)) > HALF_DIFF_THRESH * Len(l)
             THEN Verdict(TRUE, "half_blank")
        ELSE IF LapVarAbove(frame, LAPL_VAR_MAX) THEN Verdict(TRUE, "excessive_lap")
        ELSE Verdict(FALSE, "")

\* is_bad_frame with the dominant-bin check moved before the ratio checks
is_bad_frame_dom_first(frame) ==
    IF ~frame.ok THEN Verdict(TRUE, "unreadable")
    ELSE IF frame.h < MIN_DIM \/ frame.w < MIN_DIM THEN Verdict(TRUE, "too_small")
    ELSE LET gray == Gray(frame)
             l == BlockValues(frame.left)
             r == BlockValues(frame.right)
    IN  IF StdBelow(gray, MIN_STD) THEN Verdict(TRUE, "low_std")
        ELSE IF DomAtLeast(gray, DOMINANT_BIN_RATIO) THEN Verdict(TRUE, "dominant_bin")
        ELSE IF BlackRatioAtLeast(gray, BLACK_LEVEL, PERCENT_BLACK) THEN Verdict(TRUE, "mostly_black")
        ELSE IF WhiteRatioAtLeast(gray, WHITE_LEVEL, PERCENT_WHITE) THEN Verdict(TRUE, "mostly_white")
        ELSE IF /\ Abs(SumSeq(l) - SumSeq(r)) > HALF_DIFF_THRESH * Len(l)
                /\ (SumSeq(l) <= (BLACK_LEVEL + 10) * Len(l) \/ SumSeq(r) <= (BLACK_LEVEL + 10) * Len(r))
             THEN Verdict(TRUE, "half_blank")
        ELSE IF /\ Abs(SumSeq(l) - SumSeq(r)) > HALF_DIFF_THRESH * Len(l)
                /\ (SumSeq(l) >= (WHITE_LEVEL - 10) * Len(l) \/ SumSeq(r) >= (WHITE_LEVEL - 10) * Len(r))
             THEN Verdict(TRUE, "half_white")
        ELSE IF LapVarAbove(frame, LAPL_VAR_MAX) THEN Verdict(TRUE, "excessive_lap")
        ELSE Verdict(FALSE, "")

\* is_bad_frame: (bad, reason); the reason is kept without its formatted number
is_bad_frame(frame) ==
    IF ~frame.ok THEN Verdict(TRUE, "unreadable")
    ELSE IF frame.h < MIN_DIM \/ frame.w < MIN_DIM THEN Verdict(TRUE, "too_small")
    ELSE LET gray == Gray(frame)
             l == BlockValues(frame.left)
             r == BlockValues(frame.right)
    IN  IF StdBelow(gray, MIN_STD) THEN Verdict(TRUE, "low_std")
        ELSE IF BlackRatioAtLeast(gray, BLACK_LEVEL, PERCENT_BLACK) THEN Verdict(TRUE, "mostly_black")
        ELSE IF WhiteRatioAtLeast(gray, WHITE_LEVEL, PERCENT_WHITE) THEN Verdict(TRUE, "mostly_white")
        ELSE IF DomAtLeast(gray, DOMINANT_BIN_RATIO) THEN Verdict(TRUE, "dominant_bin")
        ELSE IF /\ Abs(SumSeq(l) - SumSeq(r)) > HALF_DIFF_THRESH * Len(l)
                /\ (SumSeq(l) <= (BLACK_LEVEL + 10) * Len(l) \/ SumSeq(r) <= (BLACK_LEVEL + 10) * Len(r))
             THEN Verdict(TRUE, "half_blank")
        ELSE IF /\ Abs(SumSeq(l) - SumSeq(r)) > HALF_DIFF_THRESH * Len(l)
                /\ (SumSeq(l) >= (WHITE_LEVEL - 10) * Len(l) \/ SumSeq(r) >= (WHITE_LEVEL - 10) * Len(r))
             THEN Verdict(TRUE, "half_white")
        ELSE IF LapVarAbove(frame, LAPL_VAR_MAX) THEN Verdict(TRUE, "excessive_lap")
        ELSE Verdict(FALSE, "")

\* cv2.resize(f, (w, h)): the same picture stretched to h rows by w columns
resize(f, w, h) == [f EXCEPT !.h = h, !.w = w]

(* ------------------------------------------------------------------ *)
(* The files a run can find                                             *)
(* ------------------------------------------------------------------ *)
\* the decimal digits of n, zero-padded to width characters
RECURSIVE Dig(_, _)
Dig(n, width) == IF width = 0 THEN <<>>
                 ELSE Dig(n \div 10, width - 1) \o <<DigitSeq[(n % 10) + 1]>>

IMAGES_ROOT == "images"
LEGACY_5MIN == "images_5min"

\* 200 columns by 100 rows, a textured landscape
GoodA == Frame(100, 200, <<<<40, 90>>, <<120, 200>>>>, <<<<60, 110>>, <<150, 220>>>>)
\* the same kind of picture from a camera with another resolution
GoodB == Frame(160, 120, <<<<30, 80>>, <<100, 180>>>>, <<<<50, 130>>, <<160, 210>>>>)
\* every pixel 255
PureWhite == Frame(100, 200, <<<<255, 255>>>>, <<<<255, 255>>>>)

File(root, name, content) == [root |-> root, name |-> name, content |-> content]
Stamp6(date, tod) == Dig(date, 6) \o <<"_">> \o Dig(tod, 6)
Stamp8(date, tod) == Dig(date, 8) \o <<"_">> \o Dig(tod, 6)

\* directory entries under images/** (all regular files)
RootPool ==
    { File(IMAGES_ROOT, <<"a", "_">> \o Stamp6(251028, 120000) \o <<".", "j", "p", "g">>, GoodA),
      File(IMAGES_ROOT, <<"c", "_">> \o Stamp6(251027, 80000) \o <<".", "p", "n", "g">>, PureWhite),
      File(IMAGES_ROOT, <<"n", "o", "t", "e", "s", ".", "j", "p", "g">>, GoodA),
      File(IMAGES_ROOT, <<"e", "_">> \o Stamp6(251345, 120000) \o <<".", "j", "p", "g">>, GoodA),
      File(IMAGES_ROOT, <<"f", "_">> \o Stamp6(251029, 0) \o <<".", "g", "i", "f">>, GoodA) }
\* directory entries of images_5min/
LegacyPool ==
    { File(LEGACY_5MIN, <<"b", "_">> \o Stamp8(20251028, 120000) \o <<".", "J", "P", "G">>, GoodB),
      File(LEGACY_5MIN, <<"d", "_">> \o Stamp6(251020, 90000) \o <<".", "j", "p", "g">>, GoodA),
      File(LEGACY_5MIN, <<"h", "_">> \o Stamp6(251025, 60500) \o <<".", "j", "p", "g">>, GoodB),
      File(LEGACY_5MIN, <<"g", "_">> \o Stamp6(251029, 60000) \o <<".", "j", "p", "e", "g">>, NoFrame) }

\* local dates of "now" (datetime.utcnow() seen in Europe/Madrid), as day numbers
NowDays == {DaysFromCivil(2025, 11, 1), DaysFromCivil(2025, 11, 10)}
\* answers of astral's sun(): the sunrise as a second of the local day with the
\* utcoffset of its tzinfo, or no "sunrise" entry
Sunrise(sec, off) == [known |-> TRUE, sec |-> sec, off |-> off]
NoSunrise == [known |-> FALSE, sec |-> 0, off |-> 0]
SunAnswers == {Sunrise(8 * 3600 + 600, 7200), NoSunrise}

(* ------------------------------------------------------------------ *)
(* gather_images                                                        *)
(* ------------------------------------------------------------------ *)
Record(ts, p) == [ts |-> ts, p |-> p]

\* what one iteration of either scan loop does with the entry p:
\* "skip" (extension or timestamp missing), "raise" (ts_to_datetime_utc
\* raised) or "append"
ScanOutcome(p) ==
    IF Lower(Suffix(p.name)) \notin exts THEN "skip"
    ELSE LET tsYY == extract_ts_from_name(p.name)
         IN  IF tsYY = NoTs THEN "skip"
             ELSE IF ts_to_datetime_utc(tsYY).ok THEN "append" ELSE "raise"
ScanRecord(p) == Record(ts_to_datetime_utc(extract_ts_from_name(p.name)).t, p)

\* list.sort(key=lambda x: x[0]): stable ascending sort by instant
\* a sort that moves a record in front of the records with an equal key
KeyBeforeOrEqual(x, y) == Leq(x.ts, y.ts)
\* key=lambda x: x[0]: x moves in front of y only when its instant is smaller
KeyBefore(x, y) == Lt(x.ts, y.ts)
RECURSIVE InsertByTs(_, _)
InsertByTs(sorted, x) ==
    IF sorted = <<>> THEN <<x>>
    ELSE IF KeyBefore(x, sorted[Len(sorted)])
         THEN InsertByTs(SubSeq(sorted, 1, Len(sorted) - 1), x) \o <<sorted[Len(sorted)]>>
         ELSE sorted \o <<x>>
RECURSIVE SortByTs(_)
SortByTs(s) == IF s = <<>> THEN <<>>
               ELSE InsertByTs(SortByTs(SubSeq(s, 1, Len(s) - 1)), s[Len(s)])

(* ------------------------------------------------------------------ *)
(* compute_window_utc                                                   *)
(* ------------------------------------------------------------------ *)
\* the instant of the first record in place of the largest one
FirstInstant(images) == images[1].ts
\* max(ts for ts,_ in images)
MaxInstant(images) ==
    LET all == {images[i].ts : i \in 1..Len(images)}
    IN  CHOOSE t \in all : \A u \in all : Leq(u, t)

NoInstant == Instant(-1, 0)

MinInstant(images) ==
    LET all == {images[i].ts : i \in 1..Len(images)}
    IN  CHOOSE t \in all : \A u \in all : Leq(t, u)

\* compute_window_utc taking the earliest instead of the latest image as end
compute_window_utc_min_end(images, nowDay, sun) ==
    IF images = <<>>
    THEN [ok |-> FALSE, start_utc |-> NoInstant, end_utc |-> NoInstant, start_local |-> NoInstant]
    ELSE LET earliest_day == nowDay - WINDOW_DAYS
             sunrise_local == IF sun.known THEN Instant(earliest_day, sun.sec)
                              ELSE Instant(earliest_day, FALLBACK_SUNRISE_SEC)
             off == IF sun.known THEN sun.off ELSE LMT_OFFSET_SEC
             start_local == MinusSecs(sunrise_local, MINUTES_BEFORE_SUNRISE * 60)
         IN  [ok |-> TRUE,
              start_utc |-> ToUtc(start_local, off),
              end_utc |-> MinInstant(images),
              start_local |-> start_local]

\* ok = FALSE stands for the RuntimeError raised on an empty list
compute_window_utc(images, nowDay, sun) ==
    IF images = <<>>
    THEN [ok |-> FALSE, start_utc |-> NoInstant, end_utc |-> NoInstant, start_local |-> NoInstant]
    ELSE LET earliest_day == nowDay - WINDOW_DAYS
             sunrise_local == IF sun.known THEN Instant(earliest_day, sun.sec)
                              ELSE Instant(earliest_day, FALLBACK_SUNRISE_SEC)
             off == IF sun.known THEN sun.off ELSE LMT_OFFSET_SEC
             start_local == MinusSecs(sunrise_local, MINUTES_BEFORE_SUNRISE * 60)
         IN  [ok |-> TRUE,
              start_utc |-> ToUtc(start_local, off),
              end_utc |-> MaxInstant(images),
              start_local |-> start_local]

\* a window that leaves out the instant of its start
WithinAfterStart(ts, start, end) == Lt(start, ts) /\ Leq(ts, end)
\* start_utc <= ts <= end_utc
Within(ts, start, end) == Leq(start, ts) /\ Leq(ts, end)
\* [(ts,p) for ts,p in images if start_utc <= ts <= end_utc]
RECURSIVE InWindow(_, _, _)
InWindow(images, start, end) ==
    IF images = <<>> THEN <<>>
    ELSE (IF Within(images[1].ts, start, end) THEN <<images[1]>> ELSE <<>>)
         \o InWindow(Tail(images), start, end)

(* ------------------------------------------------------------------ *)
(* The viewer script: state and functions                               *)
(* ------------------------------------------------------------------ *)
\* weeks in manifest.json
MaxWeeks == 2
\* images in manifest.json, all weeks together
MaxImages == 2
\* numbers of images a week of the manifest can hold
ImageCounts == 0..MaxImages

prefetchRadius == 4
\* pendingIndex = null
NoIndex == -1
\* playTimer = null; rafId = 0
NoHandle == 0
\* imgEl without a src attribute
NoSrc == <<>>
\* manifest = null
NoManifest == <<>>
Maximum(a, b) == IF a >= b THEN a ELSE b
Minimum(a, b) == IF a <= b THEN a ELSE b

\* the raw URL of image k (counted from 0) of the week with a label
Url(label, k) == <<label, k>>
Week(label, n) == [label |-> label, images |-> [k \in 1..n |-> [raw |-> Url(label, k - 1)]]]
RECURSIVE SumTo(_, _)
SumTo(count, m) == IF m = 0 THEN 0 ELSE count[m] + SumTo(count, m - 1)
\* what manifest.json can hold: one to MaxWeeks weeks with different labels, in
\* any order, each with a number of images of ImageCounts, MaxImages at most
\* in the whole file
ManifestData ==
    UNION { {[j \in 1..m |-> Week(order[j], count[j])] :
                order \in {f \in [1..m -> 1..m] : \A x, y \in 1..m : x # y => f[x] # f[y]},
                count \in {c \in [1..m -> ImageCounts] : SumTo(c, m) <= MaxImages}} :
            m \in 1..MaxWeeks }

\* data.weeks.sort((a,b) => a.label > b.label ? 1 : -1)
orderWeeksAsc(weeks) ==
    [j \in 1..Len(weeks) |->
        CHOOSE w \in {weeks[x] : x \in 1..Len(weeks)} :
            Cardinality({x \in 1..Len(weeks) : weeks[x].label <= w.label}) = j]

\* a handle setInterval or requestAnimationFrame returns: positive, not in use
NewHandle(inUse) == CHOOSE h \in 1..(Cardinality(inUse) + 1) : h \notin inUse

\* the page when the script has run up to `await fetch(...)` in init():
\* showLoading(true) is done, the manifest has not arrived.
\* timers, frames: handles of the interval timers and animation-frame callbacks
\* the browser holds; temps: URLs of the images applyShow is loading.
\* lastApplied: pendingIndex as the last applyShow found it; overwritten: a
\* requestShow replaced another index while the callback was scheduled.
\* note: what the handler that left a note last did: "threw" (applyShow read
\* images[-1].raw, a TypeError), "coalesced" (applyShow applied an index that
\* had replaced another), "shown" (any other applyShow), "loadError" (an
\* onerror ran), "navStopped" (a navigation handler stopped a playback)
ViewerStart ==
    [manifest |-> NoManifest, weekIndex |-> 0, images |-> <<>>, pendingIndex |-> NoIndex,
     playing |-> FALSE, playTimer |-> NoHandle, rafId |-> NoHandle,
     slider |-> [value |-> 1, max |-> 1], imgSrc |-> NoSrc, imgAlt |-> "",
     loading |-> TRUE, weekBtn |-> 0, playToggle |-> "play", cache |-> {},
     timers |-> {}, frames |-> {}, temps |-> {},
     lastApplied |-> NoIndex, overwritten |-> FALSE, note |-> ""]

showLoading(v, on) == [v EXCEPT !.loading = on]
setSliderMax(v, n) == [v EXCEPT !.slider = [value |-> 1, max |-> Maximum(1, n)]]
updateWeekButtonLabel(v) ==
    IF v.manifest # NoManifest /\ v.weekIndex + 1 \in 1..Len(v.manifest)
    THEN [v EXCEPT !.weekBtn = v.manifest[v.weekIndex + 1].label]
    ELSE v

CacheHas(v, url) == \E e \in v.cache : e.url = url
CacheComplete(v, url) == \E e \in v.cache : e.url = url /\ e.complete
CacheSet(cache, url, complete) ==
    {e \in cache : e.url # url} \cup {[url |-> url, complete |-> complete]}

prefetchAround(v, idx) ==
    IF v.images = <<>> THEN v
    ELSE LET lo == Maximum(0, idx - prefetchRadius)
             hi == Minimum(Len(v.images) - 1, idx + prefetchRadius)
             fresh == {v.images[k + 1].raw : k \in lo..hi} \ {e.url : e \in v.cache}
         IN  [v EXCEPT !.cache = @ \cup {[url |-> u, complete |-> FALSE] : u \in fresh}]

\* requestShow scheduling a callback on every call
requestShowEveryCall(v, index) ==
    LET h == NewHandle(v.frames)
    IN  [v EXCEPT !.pendingIndex = index, !.rafId = h, !.frames = @ \cup {h}]

requestShow(v, index) ==
    IF v.rafId = NoHandle
    THEN LET h == NewHandle(v.frames)
         IN  [v EXCEPT !.pendingIndex = index, !.rafId = h, !.frames = @ \cup {h}]
    ELSE [v EXCEPT !.pendingIndex = index,
                   !.overwritten = @ \/ index # v.pendingIndex]

\* applyShow, called by the browser for the scheduled callback h; reading
\* images[idx].raw with idx = -1 throws a TypeError, which ends the callback
applyShow(v, h) ==
    LET v1 == [v EXCEPT !.rafId = NoHandle, !.frames = @ \ {h}]
    IN  IF v1.pendingIndex = NoIndex THEN v1
        ELSE LET idx == Minimum(Maximum(0, v1.pendingIndex), Len(v1.images) - 1)
                 v2 == [v1 EXCEPT !.lastApplied = v1.pendingIndex,
                                  !.note = IF v1.overwritten THEN "coalesced" ELSE "shown",
                                  !.overwritten = FALSE]
             IN  IF idx < 0 THEN [v2 EXCEPT !.note = "threw"]
                 ELSE LET url == v2.images[idx + 1].raw
                          v3 == IF CacheComplete(v2, url)
                                THEN [showLoading(v2, FALSE) EXCEPT !.imgSrc = url]
                                ELSE [showLoading(v2, TRUE) EXCEPT !.temps = @ \cup {url}]
                      IN  prefetchAround(v3, idx)

\* temp.onload
tempOnload(v, url) ==
    [showLoading(v, FALSE) EXCEPT !.imgSrc = url, !.cache = CacheSet(@, url, TRUE),
                                  !.temps = @ \ {url}]
\* temp.onerror
tempOnerror(v, url) == [showLoading(v, FALSE) EXCEPT !.temps = @ \ {url}, !.note = "loadError"]

loadWeek(v, i) ==
    LET wk == v.manifest[i + 1]
        v1 == updateWeekButtonLabel(
                  [setSliderMax([v EXCEPT !.images = wk.images], Len(wk.images))
                      EXCEPT !.cache = {}])
    IN  IF v1.images # <<>>
        THEN requestShow([v1 EXCEPT !.slider.value = 1], 0)
        ELSE [v1 EXCEPT !.imgSrc = NoSrc]

\* stopPlayback forgetting the timer without clearing it
stopPlaybackKeepTimer(v) ==
    [v EXCEPT !.playing = FALSE, !.playTimer = NoHandle, !.playToggle = "play"]

stopPlayback(v) ==
    [v EXCEPT !.playing = FALSE,
              !.timers = IF v.playTimer # NoHandle THEN @ \ {v.playTimer} ELSE @,
              !.playTimer = NoHandle,
              !.playToggle = "play"]

startPlayback(v) ==
    IF v.playing \/ v.images = <<>> THEN v
    ELSE LET h == NewHandle(v.timers)
         IN  [v EXCEPT !.playing = TRUE, !.playToggle = "pause", !.playTimer = h,
                       !.timers = @ \cup {h}]

tickForward(v) ==
    IF v.images = <<>> THEN v
    ELSE LET idx == (v.slider.value - 1) + 1
         IN  IF idx >= Len(v.images)
             THEN LET next == (v.weekIndex + 1) % Len(v.manifest)
                      v1 == loadWeek([v EXCEPT !.weekIndex = next], next)
                  IN  requestShow([v1 EXCEPT !.slider.value = 0 + 1], 0)
             ELSE requestShow([v EXCEPT !.slider.value = idx + 1], idx)

togglePlayback(v) == IF v.playing THEN stopPlayback(v) ELSE startPlayback(v)
\* speedSelect "change"
speedChange(v) == IF v.playing THEN startPlayback(stopPlayback(v)) ELSE v

\* stopPlayback() as the first call of a navigation handler
navStop(v) == [stopPlayback(v) EXCEPT !.note = IF v.playing THEN "navStopped" ELSE @]

\* a slider handler that leaves the playback running
sliderInputKeepsPlaying(v, value) ==
    LET v1 == [v EXCEPT !.slider.value = value]
    IN  requestShow(v1, v1.slider.value - 1)

\* slider "input": the browser has set slider.value to the value chosen
sliderInput(v, value) ==
    LET v1 == navStop([v EXCEPT !.slider.value = value])
    IN  requestShow(v1, v1.slider.value - 1)

keydown(v, key) ==
    IF key = "Space" THEN togglePlayback(v)
    ELSE IF v.images = <<>> THEN v
    ELSE IF key = "ArrowLeft"
         THEN LET v1 == navStop(v)
                  v2 == [v1 EXCEPT !.slider.value = Maximum(1, v1.slider.value - 1)]
              IN  requestShow(v2, v2.slider.value - 1)
    ELSE IF key = "ArrowRight"
         THEN LET v1 == navStop(v)
                  v2 == [v1 EXCEPT !.slider.value = Minimum(v1.slider.max, v1.slider.value + 1)]
              IN  requestShow(v2, v2.slider.value - 1)
    ELSE v

\* the click handler buildWeekMenu gives the button of week i
weekItemClick(v, i) == loadWeek(navStop([v EXCEPT !.weekIndex = i]), i)

\* init() after the manifest arrived
initLoaded(v, data) ==
    LET v1 == [v EXCEPT !.manifest = orderWeeksAsc(data)]
        v2 == [v1 EXCEPT !.weekIndex = Len(v1.manifest) - 1]
    IN  showLoading(loadWeek(v2, v2.weekIndex), FALSE)
\* init() when loadManifest threw
initFailed(v) == [showLoading(v, FALSE) EXCEPT !.imgAlt = "Failed to load manifest"]

(* ------------------------------------------------------------------ *)
(* main: the state of one run                                           *)
(* ------------------------------------------------------------------ *)
VARIABLES
    pc,          \* where main is
    scanned,     \* directory entries the scan loops have visited, in scan order
    candidates,  \* gather_images' list before the sort
    images,      \* the list gather_images returned
    now_day,     \* the local date of "now" that compute_window_utc read (day number)
    sun_answer,  \* what sun() answered for the earliest day
    start_utc, end_utc, start_local,
    window,      \* images inside [start_utc, end_utc]
    firstLog,    \* verdicts the first-good-frame loop has seen, in order
    first,       \* the frame that loop kept (NoFrame: None)
    writer,      \* the cv2.VideoWriter: state, frame size, frames written
    i,           \* index of the assembly loop in window
    used, skipped, used_times,
    stdout,      \* lines printed
    exitCode,    \* -1 while running, then the status of the process
    viewer       \* the page of the viewer script: its variables, its elements, the
                 \* browser's timers, animation-frame callbacks and image loads

vars == <<pc, scanned, candidates, images, now_day, sun_answer, start_utc, end_utc, start_local, window,
          firstLog, first, writer, i, used, skipped, used_times, stdout, exitCode, viewer>>

RUNNING == -1
MSG_NO_IMAGES == "No images found under /images/** or /images_5min"
MSG_NO_WINDOW == "No images within the computed 7-day window."
MSG_NO_VALID == "No valid frames in window."
MSG_NO_USABLE == "No usable frames after filtering."
MSG_SAVED == "Saved"
MSG_TRACEBACK == "Traceback (most recent call last)"

\* frames: what was appended; late: calls of write() on a writer that is not
\* open; releases: calls of release()
NoWriter == [state |-> "none", fps |-> 0, w |-> 0, h |-> 0, frames |-> <<>>, late |-> 0,
             releases |-> 0]

Init ==
    /\ pc = "scan_root"
    /\ scanned = <<>>
    /\ candidates = <<>>
    /\ images = <<>>
    /\ now_day = 0
    /\ sun_answer = NoSunrise
    /\ start_utc = NoInstant
    /\ end_utc = NoInstant
    /\ start_local = NoInstant
    /\ window = <<>>
    /\ firstLog = <<>>
    /\ first = NoFrame
    /\ writer = NoWriter
    /\ i = 0
    /\ used = 0
    /\ skipped = 0
    /\ used_times = <<>>
    /\ stdout = <<>>
    /\ exitCode = RUNNING
    /\ viewer = ViewerStart

\* an uncaught exception: the interpreter prints the traceback and exits 1
Raise ==
    /\ pc' = "raised"
    /\ stdout' = Append(stdout, MSG_TRACEBACK)
    /\ exitCode' = 1

\* the path of a scanned entry: its position in the scan stands for the
\* directory part that tells two entries with the same name apart
Located(p) == [root |-> p.root, name |-> p.name, content |-> p.content, n |-> Len(scanned) + 1]

\* the iteration without its `if tsYY:` guard: ts_to_datetime_utc(None) raises
ScanStepNoGuard(p) ==
    /\ scanned' = Append(scanned, Located(p))
    /\ IF Lower(Suffix(p.name)) \notin exts
       THEN UNCHANGED <<candidates, pc, stdout, exitCode>>
       ELSE IF extract_ts_from_name(p.name) = NoTs
            THEN /\ Raise
                 /\ UNCHANGED candidates
            ELSE IF ScanOutcome(p) = "append"
                 THEN /\ candidates' = Append(candidates, ScanRecord(Located(p)))
                      /\ UNCHANGED <<pc, stdout, exitCode>>
                 ELSE /\ Raise
                      /\ UNCHANGED candidates

\* one iteration of a scan loop of gather_images on the entry p
ScanStep(p) ==
    /\ scanned' = Append(scanned, Located(p))
    /\ CASE ScanOutcome(p) = "skip" -> UNCHANGED <<candidates, pc, stdout, exitCode>>
         [] ScanOutcome(p) = "append" ->
                /\ candidates' = Append(candidates, ScanRecord(Located(p)))
                /\ UNCHANGED <<pc, stdout, exitCode>>
         [] ScanOutcome(p) = "raise" ->
                /\ Raise
                /\ UNCHANGED candidates

\* for p in IMAGES_ROOT.rglob("*")
GatherRoot ==
    /\ pc = "scan_root"
    /\ Len(scanned) < MaxFiles
    /\ \E p \in RootPool : ScanStep(p)
    /\ UNCHANGED <<images, now_day, sun_answer, start_utc, end_utc, start_local, window, firstLog, first,
                   writer, i, used, skipped, used_times, viewer>>

\* images/ is exhausted (or does not exist)
EndRoot ==
    /\ pc = "scan_root"
    /\ pc' = "scan_legacy"
    /\ UNCHANGED <<scanned, candidates, images, now_day, sun_answer, start_utc, end_utc, start_local, window,
                   firstLog, first, writer, i, used, skipped, used_times, stdout, exitCode, viewer>>

\* for p in LEGACY_5MIN.iterdir()
GatherLegacy ==
    /\ pc = "scan_legacy"
    /\ Len(scanned) < MaxFiles
    /\ \E p \in LegacyPool : ScanStep(p)
    /\ UNCHANGED <<images, now_day, sun_answer, start_utc, end_utc, start_local, window, firstLog, first,
                   writer, i, used, skipped, used_times, viewer>>

\* gather_images returning its list as scanned, the sort left out
gather_images_unsorted(cands) == cands

\* the value gather_images returns: its list after candidates.sort
gather_images_result(cands) == SortByTs(cands)

\* main going on to compute_window_utc without its `if not images` check
GatherReturnNoCheck ==
    /\ pc = "scan_legacy"
    /\ images' = gather_images_result(candidates)
    /\ pc' = "window"
    /\ UNCHANGED <<scanned, candidates, now_day, sun_answer, start_utc, end_utc, start_local, window,
                   firstLog, first, writer, i, used, skipped, used_times, stdout, exitCode, viewer>>

\* images_5min/ is exhausted (or does not exist): gather_images sorts and
\* returns, main checks `if not images`
GatherReturn ==
    /\ pc = "scan_legacy"
    /\ images' = gather_images_result(candidates)
    /\ IF images' = <<>>
       THEN /\ stdout' = Append(stdout, MSG_NO_IMAGES)
            /\ exitCode' = 1
            /\ pc' = "done"
       ELSE /\ pc' = "window"
            /\ UNCHANGED <<stdout, exitCode>>
    /\ UNCHANGED <<scanned, candidates, now_day, sun_answer, start_utc, end_utc, start_local, window,
                   firstLog, first, writer, i, used, skipped, used_times, viewer>>

(* ------------------------------------------------------------------ *)
(* main: window, first good frame, assembly                             *)
(* ------------------------------------------------------------------ *)
\* start_utc, end_utc, start_local = compute_window_utc(images); the window
\* list; `if not window`
ComputeWindow ==
    /\ pc = "window"
    /\ \E nowDay \in NowDays, sun \in SunAnswers :
         LET win == compute_window_utc(images, nowDay, sun)
         IN  IF ~win.ok
             THEN /\ Raise
                  /\ UNCHANGED <<now_day, sun_answer, start_utc, end_utc, start_local, window>>
             ELSE /\ now_day' = nowDay
                  /\ sun_answer' = sun
                  /\ start_utc' = win.start_utc
                  /\ end_utc' = win.end_utc
                  /\ start_local' = win.start_local
                  /\ window' = InWindow(images, win.start_utc, win.end_utc)
                  /\ IF window' = <<>>
                     THEN /\ stdout' = Append(stdout, MSG_NO_WINDOW)
                          /\ exitCode' = 1
                          /\ pc' = "done"
                     ELSE /\ pc' = "first"
                          /\ UNCHANGED <<stdout, exitCode>>
    /\ UNCHANGED <<scanned, candidates, images, firstLog, first, writer, i, used,
                   skipped, used_times, viewer>>

\* cv2.imread(str(p)): the decoded content of the file, NoFrame if undecodable
imread(p) == p.content

\* index in win of the first record whose frame is not bad, 0 if there is none
FirstGood(win) ==
    LET good == {k \in 1..Len(win) : ~is_bad_frame(imread(win[k].p)).bad}
    IN  IF good = {} THEN 0 ELSE CHOOSE k \in good : \A j \in good : k <= j

\* the loop "init writer from first good frame" and `if first is None`
FindFirst ==
    /\ pc = "first"
    /\ LET k == FirstGood(window)
           seen == IF k = 0 THEN Len(window) ELSE k
       IN  /\ firstLog' = [j \in 1..seen |-> is_bad_frame(imread(window[j].p))]
           /\ IF k = 0
              THEN /\ first' = NoFrame
                   /\ stdout' = Append(stdout, MSG_NO_VALID)
                   /\ exitCode' = 1
                   /\ pc' = "done"
              ELSE /\ first' = imread(window[k].p)
                   /\ pc' = "open"
                   /\ UNCHANGED <<stdout, exitCode>>
    /\ UNCHANGED <<scanned, candidates, images, now_day, sun_answer, start_utc, end_utc, start_local, window,
                   writer, i, used, skipped, used_times, viewer>>

\* the assembly loop going on after the first good frame
OpenWriterAfterFirst ==
    /\ pc = "open"
    /\ writer' = [state |-> "open", fps |-> FPS, w |-> first.w, h |-> first.h,
                  frames |-> <<>>, late |-> 0, releases |-> 0]
    /\ used' = 0
    /\ skipped' = 0
    /\ used_times' = <<>>
    /\ i' = FirstGood(window) + 1
    /\ pc' = "loop"
    /\ UNCHANGED <<scanned, candidates, images, now_day, sun_answer, start_utc, end_utc, start_local, window,
                   firstLog, first, stdout, exitCode, viewer>>

\* the assembly loop resuming at the first good frame instead of restarting
OpenWriterResume ==
    /\ pc = "open"
    /\ writer' = [state |-> "open", fps |-> FPS, w |-> first.w, h |-> first.h,
                  frames |-> <<>>, late |-> 0, releases |-> 0]
    /\ used' = 0
    /\ skipped' = 0
    /\ used_times' = <<>>
    /\ i' = FirstGood(window)
    /\ pc' = "loop"
    /\ UNCHANGED <<scanned, candidates, images, now_day, sun_answer, start_utc, end_utc, start_local, window,
                   firstLog, first, stdout, exitCode, viewer>>

\* h,w = first.shape[:2]; writer = cv2.VideoWriter(out_path, fourcc, FPS, (w,h));
\* used = skipped = 0; used_times = []
OpenWriter ==
    /\ pc = "open"
    /\ writer' = [state |-> "open", fps |-> FPS, w |-> first.w, h |-> first.h,
                  frames |-> <<>>, late |-> 0, releases |-> 0]
    /\ used' = 0
    /\ skipped' = 0
    /\ used_times' = <<>>
    /\ i' = 1
    /\ pc' = "loop"
    /\ UNCHANGED <<scanned, candidates, images, now_day, sun_answer, start_utc, end_utc, start_local, window,
                   firstLog, first, stdout, exitCode, viewer>>

\* the assembly loop without its resize branch
FitToWriterNoResize(f, h, w) == f

\* if f.shape[:2] != (h,w): f = cv2.resize(f, (w,h))
FitToWriter(f, h, w) == IF <<f.h, f.w>> # <<h, w>> THEN resize(f, w, h) ELSE f

\* writer.write(f): an opened writer appends the frame, any other ignores it
Write(wr, rec, f) ==
    IF wr.state = "open"
    THEN [wr EXCEPT !.frames = Append(@, [ts |-> rec.ts, p |-> rec.p, h |-> f.h, w |-> f.w])]
    ELSE [wr EXCEPT !.late = @ + 1]

\* one iteration of `for ts, p in window`
LoopStep ==
    /\ pc = "loop"
    /\ i <= Len(window)
    /\ LET rec == window[i]
           f == imread(rec.p)
           verdict == is_bad_frame(f)
       IN  IF verdict.bad
           THEN /\ skipped' = skipped + 1
                /\ UNCHANGED <<writer, used, used_times>>
           ELSE /\ writer' = Write(writer, rec, FitToWriter(f, writer.h, writer.w))
                /\ used' = used + 1
                /\ used_times' = Append(used_times, rec.ts)
                /\ UNCHANGED skipped
    /\ i' = i + 1
    /\ UNCHANGED <<pc, scanned, candidates, images, now_day, sun_answer, start_utc, end_utc, start_local,
                   window, firstLog, first, stdout, exitCode, viewer>>

\* a writer that is left as it is
ReleasedNot(wr) == wr

\* writer.release()
Released(wr) == [wr EXCEPT !.state = "released", !.releases = @ + 1]

\* the loop is over: writer.release()
Release ==
    /\ pc = "loop"
    /\ i > Len(window)
    /\ writer' = Released(writer)
    /\ pc' = "report"
    /\ UNCHANGED <<scanned, candidates, images, now_day, sun_answer, start_utc, end_utc, start_local, window,
                   firstLog, first, i, used, skipped, used_times, stdout, exitCode, viewer>>

\* min(used_times), max(used_times) of the "Frame range (UTC)" line
FrameRange(times) ==
    LET all == {times[k] : k \in 1..Len(times)}
    IN  [earliest |-> CHOOSE t \in all : \A u \in all : Leq(t, u),
         latest |-> CHOOSE t \in all : \A u \in all : Leq(u, t)]

\* `if used == 0`, the three summary lines, return 0
Report ==
    /\ pc = "report"
    /\ IF used = 0
       THEN /\ stdout' = Append(stdout, MSG_NO_USABLE)
            /\ exitCode' = 1
       ELSE /\ stdout' = Append(stdout, MSG_SAVED)
            /\ exitCode' = 0
    /\ pc' = "done"
    /\ UNCHANGED <<scanned, candidates, images, now_day, sun_answer, start_utc, end_utc, start_local, window,
                   firstLog, first, writer, i, used, skipped, used_times, viewer>>

Next ==
    \/ GatherRoot
    \/ EndRoot
    \/ GatherLegacy
    \/ GatherReturn
    \/ ComputeWindow
    \/ FindFirst
    \/ OpenWriter
    \/ LoopStep
    \/ Release
    \/ Report

Spec == Init /\ [][Next]_vars

(* ------------------------------------------------------------------ *)
(* Properties                                                           *)
(* ------------------------------------------------------------------ *)
Last(s) == s[Len(s)]
WindowComputed == start_utc # NoInstant
Ended == exitCode # RUNNING

\* C1 as stated: for every non-empty catalog the computed window has
\* start <= end.
C1_StartLeqEnd == WindowComputed => Leq(start_utc, end_utc)

\* C1, amended: for a non-empty catalog the computed window has start <= end
\* exactly when some catalog record is not older than start, which is exactly
\* when the windowed catalog is non-empty; otherwise start > end and the run
\* stops with the "no images within the window" diagnostic.
C1_StartLeqEndIffInWindow ==
    WindowComputed =>
        /\ images # <<>>
        /\ Leq(start_utc, end_utc) <=> (\E k \in 1..Len(images) : Leq(start_utc, images[k].ts))
        /\ Leq(start_utc, end_utc) <=> (window # <<>>)
        /\ ~Leq(start_utc, end_utc) => (exitCode = 1 /\ Last(stdout) = MSG_NO_WINDOW)

\* C1 witness: a window with start <= end was computed from a catalog that
\* also holds a record older than start.
C1_Witness ==
    /\ WindowComputed
    /\ Leq(start_utc, end_utc)
    /\ \E k \in 1..Len(images) : Lt(images[k].ts, start_utc)

\* no record of the window is accepted by the classifier
NoneAccepted(win) == \A k \in 1..Len(win) : is_bad_frame(imread(win[k].p)).bad

\* C2 as stated: exit status 0 only with at least one frame written, and a
\* non-zero status only for an empty catalog, an empty window or a window
\* without accepted frame, each with its own diagnostic.
C2_ExitStatus ==
    /\ exitCode = 0 => Len(writer.frames) >= 1
    /\ (Ended /\ exitCode # 0) =>
          \/ images = <<>> /\ Last(stdout) = MSG_NO_IMAGES
          \/ images # <<>> /\ WindowComputed /\ window = <<>> /\ Last(stdout) = MSG_NO_WINDOW
          \/ window # <<>> /\ NoneAccepted(window) /\ Last(stdout) = MSG_NO_VALID

\* C2 away from the exception: the statement restricted to runs in which no
\* exception escaped (used to see that nothing else breaks it)
C2_UnlessRaised == pc # "raised" => C2_ExitStatus

(* ------------------------------------------------------------------ *)
(* The classifier over a domain of frames                               *)
(* ------------------------------------------------------------------ *)
\* gray values around the two levels, and a mid gray
GrayLevels == {0, 20, 128, 235, 255}
Sides == {50, 100}
Blocks == {<<a, b>> : a \in GrayLevels, b \in GrayLevels}
\* frames of 20 equally weighted gray values in which 11 values (a fraction
\* of exactly 0.55) are black, are white, or fill one histogram bin
Rep5(b) == <<b, b, b, b, b>>
EdgeBlack == Frame(100, 100, Rep5(<<0, 10>>), <<(<<5, 200>>), (<<100, 220>>), (<<60, 180>>),
                                               (<<90, 150>>), (<<120, 30>>)>>)
EdgeWhite == Frame(100, 100, Rep5(<<240, 250>>), <<(<<255, 30>>), (<<100, 220>>), (<<60, 180>>),
                                                  (<<90, 150>>), (<<120, 20>>)>>)
EdgeDominant == Frame(100, 100, Rep5(<<100, 100>>), <<(<<100, 30>>), (<<90, 220>>), (<<60, 180>>),
                                                     (<<80, 150>>), (<<120, 20>>)>>)
EdgeFrames == {EdgeBlack, EdgeWhite, EdgeDominant}
FrameDomain ==
    {NoFrame} \cup EdgeFrames
    \cup {Frame(h, w, <<l>>, <<r>>) : h \in Sides, w \in Sides, l \in Blocks, r \in Blocks}

\* a run that has reached its first-good-frame loop with one image on disk,
\* whose content is any frame of the domain
InitFrames ==
    \E content \in FrameDomain :
        LET p == [root |-> IMAGES_ROOT,
                  name |-> <<"a", "_">> \o Stamp6(251028, 120000) \o <<".", "j", "p", "g">>,
                  content |-> content, n |-> 1]
            rec == ScanRecord(p)
            win == compute_window_utc(<<rec>>, DaysFromCivil(2025, 11, 1), NoSunrise)
        IN  /\ pc = "first"
            /\ scanned = <<p>>
            /\ candidates = <<rec>>
            /\ images = <<rec>>
            /\ now_day = DaysFromCivil(2025, 11, 1)
            /\ sun_answer = NoSunrise
            /\ start_utc = win.start_utc
            /\ end_utc = win.end_utc
            /\ start_local = win.start_local
            /\ window = <<rec>>
            /\ firstLog = <<>>
            /\ first = NoFrame
            /\ writer = NoWriter
            /\ i = 0
            /\ used = 0
            /\ skipped = 0
            /\ used_times = <<>>
            /\ stdout = <<>>
            /\ exitCode = RUNNING
            /\ viewer = ViewerStart

NextFrames ==
    \/ FindFirst
    \/ OpenWriter
    \/ LoopStep
    \/ Release
    \/ Report

SpecFrames == InitFrames /\ [][NextFrames]_vars

\* the checks of the classifier, numbered in the order of the contract, each
\* as a condition on the frame alone
CheckFires(k, f) ==
    CASE k = 1 -> ~f.ok
      [] k = 2 -> f.ok /\ (f.h < MIN_DIM \/ f.w < MIN_DIM)
      [] k = 3 -> f.ok /\ StdBelow(Gray(f), MIN_STD)
      [] k = 4 -> f.ok /\ BlackRatioAtLeast(Gray(f), BLACK_LEVEL, PERCENT_BLACK)
      [] k = 5 -> f.ok /\ WhiteRatioAtLeast(Gray(f), WHITE_LEVEL, PERCENT_WHITE)
      [] k = 6 -> f.ok /\ DomAtLeast(Gray(f), DOMINANT_BIN_RATIO)
      [] k = 7 -> LET l == SumSeq(BlockValues(f.left))
                      r == SumSeq(BlockValues(f.right))
                      n == Len(BlockValues(f.left))
                  IN  /\ f.ok
                      /\ Abs(l - r) > HALF_DIFF_THRESH * n
                      /\ \/ l <= (BLACK_LEVEL + 10) * n \/ r <= (BLACK_LEVEL + 10) * n
                         \/ l >= (WHITE_LEVEL - 10) * n \/ r >= (WHITE_LEVEL - 10) * n
      [] k = 8 -> f.ok /\ LapVarAbove(f, LAPL_VAR_MAX)
CheckReasons(k) ==
    CASE k = 1 -> {"unreadable"}
      [] k = 2 -> {"too_small"}
      [] k = 3 -> {"low_std"}
      [] k = 4 -> {"mostly_black"}
      [] k = 5 -> {"mostly_white"}
      [] k = 6 -> {"dominant_bin"}
      [] k = 7 -> {"half_blank", "half_white"}
      [] k = 8 -> {"excessive_lap"}
Firing(f) == {k \in 1..8 : CheckFires(k, f)}

\* C3: every verdict of is_bad_frame is the reason of the first check, in the
\* order unreadable, too_small, low_std, mostly_black, mostly_white,
\* dominant_bin, half_blank/half_white, excessive_lap, that fires on the frame
\* (so mostly_black wins over excessive_lap), and a frame on which no check
\* fires is accepted.
C3_FirstFiringCheck ==
    \A j \in 1..Len(firstLog) :
        LET f == imread(window[j].p)
            v == firstLog[j]
        IN  /\ Firing(f) = {} => (~v.bad /\ v.why = "")
            /\ Firing(f) # {} =>
                  /\ v.bad
                  /\ \E k \in Firing(f) : (\A m \in Firing(f) : k <= m) /\ v.why \in CheckReasons(k)
            /\ (CheckFires(4, f) /\ CheckFires(8, f) /\ Firing(f) \cap {1, 2, 3} = {})
                  => v.why = "mostly_black"

\* (No pixel pattern makes checks 4 and 8 fire together: with 55% of the
\* pixels at most 15 the Laplacian's variance stays below 14.6 * 255^2, under
\* LAPL_VAR_MAX; the last conjunct follows from the order and has no instance.)

\* C3 witness: a frame on which the black-ratio, the dominant-bin and the
\* half-frame checks all fire has been classified, as mostly_black.
C3_Witness ==
    \E j \in 1..Len(firstLog) :
        /\ {4, 6, 7} \subseteq Firing(imread(window[j].p))
        /\ firstLog[j].why = "mostly_black"


IsPureWhite(f) == f.ok /\ \A k \in 1..Len(Gray(f)) : Gray(f)[k] = 255
AllPureWhite(win) == win # <<>> /\ \A k \in 1..Len(win) : IsPureWhite(imread(win[k].p))

ReachedAssembly == writer.state # "none"
BadIn(win) == {k \in 1..Len(win) : is_bad_frame(imread(win[k].p)).bad}

\* C5: when a run that reached assembly has left its loop, used + skipped is
\* the number of records of the window, used counting the accepted and
\* skipped the rejected records; inside the loop the two count the records
\* visited so far.
C5_UsedPlusSkipped ==
    /\ (ReachedAssembly /\ pc = "loop") => used + skipped = i - 1
    /\ (ReachedAssembly /\ pc \in {"report", "done"}) =>
          /\ used + skipped = Len(window)
          /\ skipped = Cardinality(BadIn(window))
          /\ used = Len(window) - Cardinality(BadIn(window))

\* C5 witness: a run has ended after assembly with a rejected record ahead of
\* the first accepted one.
C5_Witness ==
    /\ pc = "done" /\ ReachedAssembly
    /\ 1 \in BadIn(window)
    /\ used >= 1

\* C6: the stream's frame size is the size of the first accepted record of
\* the window, and every frame appended to the stream has that size.
C6_OutputDimensions ==
    ReachedAssembly =>
        /\ FirstGood(window) # 0
        /\ writer.h = imread(window[FirstGood(window)].p).h
        /\ writer.w = imread(window[FirstGood(window)].p).w
        /\ \A k \in 1..Len(writer.frames) :
              writer.frames[k].h = writer.h /\ writer.frames[k].w = writer.w

\* C6 witness: a frame decoded with another size than the stream's has been
\* appended.
C6_Witness ==
    \E k \in 1..Len(writer.frames) :
        <<writer.frames[k].p.content.h, writer.frames[k].p.content.w>> # <<writer.h, writer.w>>

\* C7: the frames of the stream are in non-decreasing order of instant, and
\* frames of equal instant are in the order in which their files were scanned.
C7_WriteOrder ==
    \A a, b \in 1..Len(writer.frames) :
        a < b =>
            /\ Leq(writer.frames[a].ts, writer.frames[b].ts)
            /\ writer.frames[a].ts = writer.frames[b].ts
                  => writer.frames[a].p.n < writer.frames[b].p.n

\* C7 witness: the stream holds two frames of equal instant after a frame
\* whose file was scanned later than theirs.
C7_Witness ==
    \E a, b, c \in 1..Len(writer.frames) :
        /\ a < b /\ b < c
        /\ writer.frames[b].ts = writer.frames[c].ts
        /\ writer.frames[a].p.n > writer.frames[c].p.n

\* C8: a run that opened the stream ends with it released, release() having
\* been called exactly once and write() never on a stream that is not open;
\* a run that ends with "no valid frames" never opened or released it.
C8_ReleasedOnce ==
    /\ writer.releases <= 1
    /\ writer.late = 0
    /\ writer.state = "released" <=> writer.releases = 1
    /\ (Ended /\ ReachedAssembly) => writer.state = "released"
    /\ (Ended /\ Last(stdout) = MSG_NO_VALID) => writer = NoWriter

\* C8 witness: a run has ended with frames in a stream it released.
C8_Witness == Ended /\ writer.state = "released" /\ Len(writer.frames) >= 1

\* C9 as stated: no failure on a single file or frame ends the run; a run
\* that ends abnormally prints one of the three whole-run diagnostics.
C9_PerItemAbsorbed ==
    (Ended /\ exitCode # 0) => Last(stdout) \in {MSG_NO_IMAGES, MSG_NO_WINDOW, MSG_NO_VALID}

ContainsNeither(name) == MatchStarts(name, 8) = {} /\ MatchStarts(name, 6) = {}
Kept(p) == \E c \in 1..Len(candidates) : candidates[c].p = p

\* C10: for a scanned file whose name contains neither pattern,
\* extract_ts_from_name returns None, the file is not in the catalog and the
\* run does not end on it; every other scanned file with a recognized
\* extension and a timestamp that is a date is in the catalog.
C10_NoTimestampSkipped ==
    /\ \A k \in 1..Len(scanned) :
          ContainsNeither(scanned[k].name) =>
              /\ extract_ts_from_name(scanned[k].name) = NoTs
              /\ ~Kept(scanned[k])
              /\ ~(pc = "raised" /\ k = Len(scanned))
    /\ \A k \in 1..Len(scanned) :
          (ScanOutcome(scanned[k]) = "append") => Kept(scanned[k])
    /\ pc \notin {"scan_root", "scan_legacy", "raised"} =>
          /\ Len(images) = Len(candidates)
          /\ \A c \in 1..Len(candidates) : \E m \in 1..Len(images) : images[m] = candidates[c]

\* C10 witness: a run that scanned a file without timestamp, with a
\* recognized extension, after another file has ended with status 0.
C10_Witness ==
    /\ exitCode = 0
    /\ \E k \in 2..Len(scanned) :
          /\ ContainsNeither(scanned[k].name)
          /\ Lower(Suffix(scanned[k].name)) \in exts
          /\ Kept(scanned[k - 1])

(* ------------------------------------------------------------------ *)
(* The scan loop over a domain of file names                            *)
(* ------------------------------------------------------------------ *)
\* number of entries of images/ scanned in a run over the name domain
MaxNamed == 2

JPG == <<".", "j", "p", "g">>
NamePrefixes ==
    { <<>>, <<"a", "_">>, <<"1", "2">>, Stamp6(251027, 80000) \o <<"_">> }
NameDates == {20251028, 19991231, 20240229, 20251345}
\* names with an 8-digit-date token: alone, after letters, after more digits,
\* after a 6-digit-date token; with dates that are and are not calendar dates
NameDomain ==
    {pre \o Stamp8(date, 120000) \o JPG : pre \in NamePrefixes, date \in NameDates}
    \cup { <<"b", "_">> \o Stamp8(20251028, 235959) \o <<"7">> \o JPG,
           <<"c", "_">> \o Stamp6(251028, 120000) \o JPG,
           <<"n", "o", "t", "e", "s">> \o JPG }
NamedFiles == {File(IMAGES_ROOT, name, GoodA) : name \in NameDomain}

\* for p in IMAGES_ROOT.rglob("*"), the entries drawn from the name domain
GatherNamed ==
    /\ pc = "scan_root"
    /\ Len(scanned) < MaxNamed
    /\ \E p \in NamedFiles : ScanStep(p)
    /\ UNCHANGED <<images, now_day, sun_answer, start_utc, end_utc, start_local, window,
                   firstLog, first, writer, i, used, skipped, used_times, viewer>>

NextNames ==
    \/ GatherNamed
    \/ EndRoot
    \/ GatherReturn

SpecNames == Init /\ [][NextNames]_vars

MinOf(S) == CHOOSE x \in S : \A y \in S : x <= y
HasToken8(name) == MatchStarts(name, 8) # {}
\* the leftmost 8-digit-date token of a name that has one
Token8(name) == SubSeq(name, MinOf(MatchStarts(name, 8)), MinOf(MatchStarts(name, 8)) + 14)
\* a name that holds only the 6-digit form of that token
SixFormName(name) == SubSeq(Token8(name), 3, 15) \o JPG
\* the calendar year an instant falls in
YearOf(t) ==
    CHOOSE y \in 2000..2099 : DaysFromCivil(y, 1, 1) <= t.d /\ t.d < DaysFromCivil(y + 1, 1, 1)
\* the instants the catalog under construction holds for the scanned entry p
KeptInstants(p) == {candidates[c].ts : c \in {c \in 1..Len(candidates) : candidates[c].p = p}}

\* C11: a scanned name with an 8-digit-date token YYYYMMDD_HHMMSS decodes to
\* the instant that the name holding only YYMMDD_HHMMSS decodes to, in the
\* year 2000 + YY; the two decode or fail together.
C11_EightDigitAsSixDigit ==
    \A k \in 1..Len(scanned) :
        HasToken8(scanned[k].name) =>
            LET name == scanned[k].name
                yy == IntOf(SubSeq(Token8(name), 3, 4))
                dt8 == ts_to_datetime_utc(extract_ts_from_name(name))
                dt6 == ts_to_datetime_utc(extract_ts_from_name(SixFormName(name)))
            IN  /\ extract_ts_from_name(name) # NoTs
                /\ ~HasToken8(SixFormName(name))
                /\ dt8.ok = dt6.ok
                /\ dt8.ok => /\ dt8.t = dt6.t
                             /\ YearOf(dt8.t) = 2000 + yy
                             /\ KeptInstants(scanned[k]) = {dt6.t}

\* C11 witness: a name whose 8-digit date starts with 19 was scanned and is
\* in the catalog with an instant of the year 2099.
C11_Witness ==
    \E k \in 1..Len(scanned) :
        /\ HasToken8(scanned[k].name)
        /\ SubSeq(Token8(scanned[k].name), 1, 2) = <<"1", "9">>
        /\ \E t \in KeptInstants(scanned[k]) : YearOf(t) = 2099

\* C12: for a scanned name with an 8-digit-date token, extract_ts_from_name
\* returns that token (without its century digits), also when a 6-digit-date
\* token stands earlier in the name.
C12_EightDigitWins ==
    \A k \in 1..Len(scanned) :
        HasToken8(scanned[k].name) =>
            /\ extract_ts_from_name(scanned[k].name) = SubSeq(Token8(scanned[k].name), 3, 15)
            /\ \A t \in KeptInstants(scanned[k]) :
                  t = ts_to_datetime_utc(SubSeq(Token8(scanned[k].name), 3, 15)).t

\* C12 witness: a name whose leftmost 6-digit-date token starts before, and
\* differs from, its 8-digit-date token is in the catalog.
C12_Witness ==
    \E k \in 1..Len(scanned) :
        LET name == scanned[k].name
        IN  /\ HasToken8(name)
            /\ MinOf(MatchStarts(name, 6)) < MinOf(MatchStarts(name, 8))
            /\ PAT_6(name) # SubSeq(Token8(name), 3, 15)
            /\ KeptInstants(scanned[k]) # {}

(* ------------------------------------------------------------------ *)
(* The catalog and the window                                           *)
(* ------------------------------------------------------------------ *)
GatherReturned == pc \notin {"scan_root", "scan_legacy", "raised"}
\* the scan visits every entry of images/ before any entry of images_5min/
RootBeforeLegacy ==
    \A j, k \in 1..Len(scanned) :
        (scanned[j].root = IMAGES_ROOT /\ scanned[k].root = LEGACY_5MIN) => j < k

\* C13: the catalog gather_images returns holds exactly the appended records,
\* is non-decreasing by instant, and records with equal instants stand in
\* discovery order (entries of images/ first, then images_5min/, each in scan
\* order).
C13_SortedStable ==
    GatherReturned =>
        /\ RootBeforeLegacy
        /\ Len(images) = Len(candidates)
        /\ \A c \in 1..Len(candidates) : \E k \in 1..Len(images) : images[k] = candidates[c]
        /\ \A j, k \in 1..Len(images) :
              j < k => /\ Leq(images[j].ts, images[k].ts)
                       /\ images[j].ts = images[k].ts => images[j].p.n < images[k].p.n

\* C13 witness: the returned catalog holds two records with one instant, the
\* first from images/ and the second from images_5min/, after a later instant
\* was discovered before them.
C13_Witness ==
    /\ GatherReturned
    /\ \E j, k \in 1..Len(images) :
          /\ j < k
          /\ images[j].ts = images[k].ts
          /\ images[j].p.root = IMAGES_ROOT
          /\ images[k].p.root = LEGACY_5MIN
    /\ \E j, k \in 1..Len(candidates) : j < k /\ Lt(candidates[k].ts, candidates[j].ts)

\* C14: once the window is computed, its end is the largest instant of the
\* catalog, for every reference day and every answer of the sunrise provider.
C14_EndIsMaximum ==
    WindowComputed =>
        /\ images # <<>>
        /\ \A k \in 1..Len(images) : Leq(images[k].ts, end_utc)
        /\ \E k \in 1..Len(images) : images[k].ts = end_utc

\* C14 witness: the window was computed from a catalog of two different
\* instants, on the later reference day, so that the end lies before the start.
C14_Witness ==
    /\ WindowComputed
    /\ \E j, k \in 1..Len(images) : Lt(images[j].ts, images[k].ts)
    /\ now_day = DaysFromCivil(2025, 11, 10)
    /\ Lt(end_utc, start_utc)

\* day of the week of a day number, Monday = 0 (2000-01-01 was a Saturday)
Weekday(day) == (day + 5) % 7
LastSunday(y, m) ==
    CHOOSE day \in DaysFromCivil(y, m, 25)..DaysFromCivil(y, m, 31) : Weekday(day) = 6
\* UTC offset of Europe/Madrid civil time at 06:00 of a day: +02:00 from the
\* last Sunday of March up to the day before the last Sunday of October,
\* +01:00 otherwise
MadridOffset(day) ==
    LET y == YearOf(Instant(day, 0))
    IN  IF LastSunday(y, 3) <= day /\ day < LastSunday(y, 10) THEN 7200 ELSE 3600
\* the start the window is meant to have: sunrise of the day seven civil days
\* before the reference day, or 06:00 local time of that day, minus 5 minutes
ExpectedStart(nowDay, sun) ==
    IF sun.known
    THEN ToUtc(MinusSecs(Instant(nowDay - WINDOW_DAYS, sun.sec), MINUTES_BEFORE_SUNRISE * 60),
               sun.off)
    ELSE ToUtc(MinusSecs(Instant(nowDay - WINDOW_DAYS, FALLBACK_SUNRISE_SEC),
                         MINUTES_BEFORE_SUNRISE * 60),
               MadridOffset(nowDay - WINDOW_DAYS))

\* C15: the computed window starts 5 minutes before the sunrise of the day
\* seven civil days before the reference day, in UTC; without a sunrise from
\* the provider it starts at 05:55 Europe/Madrid time of that day, in UTC.
C15_StartFromSunriseOrSix ==
    WindowComputed => start_utc = ExpectedStart(now_day, sun_answer)

(* ------------------------------------------------------------------ *)
(* The ratio checks at their boundary                                   *)
(* ------------------------------------------------------------------ *)
\* the measured fraction equals the configured ratio (in hundredths)
ExactlyAt(count, total, percent) == 100 * count = percent * total

\* C16: a classified frame whose fraction of black pixels (of white pixels,
\* of pixels in the fullest histogram bin) equals the configured ratio is not
\* rejected as mostly_black (mostly_white, dominant_bin).
C16_ExactRatioNotRejected ==
    \A j \in 1..Len(firstLog) :
        LET f == imread(window[j].p)
            gray == Gray(f)
            why == firstLog[j].why
        IN  f.ok =>
              /\ ExactlyAt(CountAtMost(gray, BLACK_LEVEL), Len(gray), PERCENT_BLACK)
                    => why # "mostly_black"
              /\ ExactlyAt(CountAtLeast(gray, WHITE_LEVEL), Len(gray), PERCENT_WHITE)
                    => why # "mostly_white"
              /\ ExactlyAt(HistMax(gray), Len(gray), DOMINANT_BIN_RATIO)
                    => why # "dominant_bin"

(* ------------------------------------------------------------------ *)
(* Recognized extensions                                                *)
(* ------------------------------------------------------------------ *)
\* the extensions the documentation lists as recognized at minimum
ListedExts ==
    { <<".", "j", "p", "g">>, <<".", "j", "p", "e", "g">>, <<".", "p", "n", "g">>,
      <<".", "g", "i", "f">>, <<".", "w", "e", "b", "p">>, <<".", "t", "i", "f">>,
      <<".", "t", "i", "f", "f">> }
Parseable(name) ==
    /\ extract_ts_from_name(name) # NoTs
    /\ ts_to_datetime_utc(extract_ts_from_name(name)).ok

\* C17: every scanned file whose extension is, compared case-insensitively,
\* one of jpg, jpeg, png, gif, webp, tif, tiff and whose name carries a
\* parseable timestamp is in the catalog, and no file with an extension
\* outside the recognized set is.
C17_ListedExtensionsKept ==
    \A k \in 1..Len(scanned) :
        /\ (Lower(Suffix(scanned[k].name)) \in ListedExts /\ Parseable(scanned[k].name))
              => Kept(scanned[k])
        /\ Lower(Suffix(scanned[k].name)) \notin (ListedExts \cup exts) => ~Kept(scanned[k])

(* ------------------------------------------------------------------ *)
(* The output file                                                      *)
(* ------------------------------------------------------------------ *)
\* cv2.VideoWriter(str(out_path), ...) creates the file at out_path, the final
\* name, when the writer is opened; nothing removes or renames it afterwards
OutputFileExists == writer.state # "none"
\* the assembly loop is over, the writer is released and a frame was written
AssemblyFinished == writer.state = "released" /\ used > 0

\* C18: a run that ended with a non-zero exit has left no file at the final
\* output path, and a file is at the final output path only after assembly
\* finished without a fatal abort.
C18_NoPartialOutput ==
    /\ (Ended /\ exitCode # 0) => ~OutputFileExists
    /\ OutputFileExists => AssemblyFinished

(* ------------------------------------------------------------------ *)
(* The empty catalog                                                    *)
(* ------------------------------------------------------------------ *)
\* C19: when gather_images returns an empty catalog, the run is over with
\* status 1 and the "no images" line as its only output, no window was
\* computed and no output stream was opened.
C19_EmptyCatalogAborts ==
    (GatherReturned /\ images = <<>>) =>
        /\ pc = "done"
        /\ exitCode = 1
        /\ stdout = <<MSG_NO_IMAGES>>
        /\ ~WindowComputed
        /\ window = <<>>
        /\ writer = NoWriter

\* C19 witness: the scan met a file without a timestamp and a .gif file,
\* kept neither, and the run ended with the "no images" line.
C19_Witness ==
    /\ GatherReturned
    /\ images = <<>>
    /\ \E j, k \in 1..Len(scanned) : ContainsNeither(scanned[j].name) /\ ~ContainsNeither(scanned[k].name)
    /\ stdout = <<MSG_NO_IMAGES>>
    /\ exitCode = 1

(* ------------------------------------------------------------------ *)
(* The windowed catalog                                                 *)
(* ------------------------------------------------------------------ *)
\* positions of the catalog records whose instant lies in [start_utc, end_utc]
InRange ==
    {k \in 1..Len(images) : Leq(start_utc, images[k].ts) /\ Leq(images[k].ts, end_utc)}
\* the j-th smallest position of a set of positions
NthOf(S, j) == CHOOSE k \in S : Cardinality({m \in S : m <= k}) = j

\* C20: once the window is computed, the windowed catalog holds exactly the
\* catalog records with start <= instant <= end, both bounds included, in
\* catalog order.
C20_WindowInclusive ==
    WindowComputed =>
        /\ Len(window) = Cardinality(InRange)
        /\ \A j \in 1..Len(window) : window[j] = images[NthOf(InRange, j)]

\* C20 witness: the windowed catalog starts with a record at the instant of
\* the window's start, ends with one at the instant of its end, and leaves
\* out an older record of the catalog.
C20_Witness ==
    /\ WindowComputed
    /\ Len(window) >= 2
    /\ window[1].ts = start_utc
    /\ window[Len(window)].ts = end_utc
    /\ \E k \in 1..Len(images) : Lt(images[k].ts, start_utc)

(* ------------------------------------------------------------------ *)
(* The half-frame check                                                 *)
(* ------------------------------------------------------------------ *)
\* the means of the two halves of a frame, times the number n of gray values
\* of a half
LeftSum(f) == SumSeq(BlockValues(f.left))
RightSum(f) == SumSeq(BlockValues(f.right))
HalfSize(f) == Len(BlockValues(f.left))
HalvesDiffer(f) == Abs(LeftSum(f) - RightSum(f)) > 60 * HalfSize(f)
NearBlack(sum, n) == sum <= 25 * n
NearWhite(sum, n) == sum >= 230 * n
AHalfNearBlack(f) == NearBlack(LeftSum(f), HalfSize(f)) \/ NearBlack(RightSum(f), HalfSize(f))
AHalfNearWhite(f) == NearWhite(LeftSum(f), HalfSize(f)) \/ NearWhite(RightSum(f), HalfSize(f))
OppositeHalves(f) ==
    \/ NearBlack(LeftSum(f), HalfSize(f)) /\ NearWhite(RightSum(f), HalfSize(f))
    \/ NearWhite(LeftSum(f), HalfSize(f)) /\ NearBlack(RightSum(f), HalfSize(f))
\* the frame gets as far as the half-frame check
ReachesHalfCheck(f) == Firing(f) \cap (1..6) = {}

\* C22: the half-frame check rejects only when the half means differ by more
\* than 60 and a half is near-black (mean <= 25) or near-white (mean >= 230);
\* a frame whose halves differ by more than 60 with neither half near-black
\* nor near-white gets the verdict of the Laplacian check; and with one half
\* near-black and the other near-white the reason is half_blank.
C22_HalfFrameCheck ==
    \A j \in 1..Len(firstLog) :
        LET f == imread(window[j].p)
            v == firstLog[j]
        IN  /\ v.why \in {"half_blank", "half_white"} =>
                  /\ v.bad
                  /\ HalvesDiffer(f)
                  /\ AHalfNearBlack(f) \/ AHalfNearWhite(f)
            /\ (ReachesHalfCheck(f) /\ HalvesDiffer(f)
                    /\ ~AHalfNearBlack(f) /\ ~AHalfNearWhite(f)) =>
                  v = IF LapVarAbove(f, LAPL_VAR_MAX) THEN Verdict(TRUE, "excessive_lap")
                      ELSE Verdict(FALSE, "")
            /\ (ReachesHalfCheck(f) /\ HalvesDiffer(f) /\ OppositeHalves(f)) =>
                  v = Verdict(TRUE, "half_blank")

\* C22 witness: a frame whose halves differ by more than 60, neither of them
\* near-black or near-white, got as far as the half-frame check and was
\* accepted.
C22_Witness ==
    \E j \in 1..Len(firstLog) :
        LET f == imread(window[j].p)
        IN  /\ ReachesHalfCheck(f)
            /\ HalvesDiffer(f)
            /\ ~AHalfNearBlack(f) /\ ~AHalfNearWhite(f)
            /\ ~firstLog[j].bad

(* ------------------------------------------------------------------ *)
(* The assembly loop and the first accepted frame                       *)
(* ------------------------------------------------------------------ *)
AssemblyOver == ReachedAssembly /\ pc \in {"report", "done"}
\* how often the file of record k of the window is in the stream
TimesWritten(k) ==
    Cardinality({j \in 1..Len(writer.frames) : writer.frames[j].p = window[k].p})
WrittenInstants == {writer.frames[j].ts : j \in 1..Len(writer.frames)}

\* C23: when a run that opened the stream has left its loop, every accepted
\* record of the window is in the stream exactly once, the first accepted one
\* included, and no rejected record is; the records rejected ahead of the
\* first accepted one are counted in skipped; and in a run that reports, the
\* earliest and latest used instants are the smallest and largest instants of
\* the frames of the stream, within [start, end].
C23_EachAcceptedOnce ==
    AssemblyOver =>
        /\ \A k \in 1..Len(window) :
              TimesWritten(k) = IF k \in BadIn(window) THEN 0 ELSE 1
        /\ TimesWritten(FirstGood(window)) = 1
        /\ Len(writer.frames) + skipped = Len(window)
        /\ skipped >= FirstGood(window) - 1
        /\ exitCode = 0 =>
              LET range == FrameRange(used_times)
              IN  /\ range.earliest \in WrittenInstants
                  /\ range.latest \in WrittenInstants
                  /\ \A t \in WrittenInstants : Leq(range.earliest, t) /\ Leq(t, range.latest)
                  /\ Leq(start_utc, range.earliest)
                  /\ Leq(range.latest, end_utc)

\* C23 witness: a run has reported with a rejected record ahead of the first
\* accepted one, two frames in the stream and one record skipped.
C23_Witness ==
    /\ pc = "done" /\ exitCode = 0
    /\ 1 \in BadIn(window)
    /\ FirstGood(window) = 2
    /\ Len(writer.frames) = 2
    /\ skipped = 1

(* ------------------------------------------------------------------ *)
(* The viewer script: events                                            *)
(* ------------------------------------------------------------------ *)
pipeline == <<pc, scanned, candidates, images, now_day, sun_answer, start_utc, end_utc,
              start_local, window, firstLog, first, writer, i, used, skipped, used_times,
              stdout, exitCode>>

InitPending == viewer.manifest = NoManifest /\ viewer.imgAlt = ""

\* manifest = await loadManifest() returns
ManifestArrives ==
    /\ InitPending
    /\ \E data \in ManifestData : viewer' = initLoaded(viewer, data)
    /\ UNCHANGED pipeline

\* loadManifest() throws (fetch failed, or no weeks)
ManifestFails ==
    /\ InitPending
    /\ viewer' = initFailed(viewer)
    /\ UNCHANGED pipeline

\* the user drags the slider to another value of its range
SliderInput ==
    /\ \E value \in 1..viewer.slider.max :
          /\ value # viewer.slider.value
          /\ viewer' = sliderInput(viewer, value)
    /\ UNCHANGED pipeline

KeyDown ==
    /\ \E key \in {"Space", "ArrowLeft", "ArrowRight"} : viewer' = keydown(viewer, key)
    /\ UNCHANGED pipeline

\* click on the menu button of week i (the menu is built once the manifest is there)
WeekItemClick ==
    /\ viewer.manifest # NoManifest
    /\ \E k \in 0..(Len(viewer.manifest) - 1) : viewer' = weekItemClick(viewer, k)
    /\ UNCHANGED pipeline

SpeedChange ==
    /\ viewer' = speedChange(viewer)
    /\ UNCHANGED pipeline

\* click on playToggle or fabPlay
PlayClick ==
    /\ viewer' = togglePlayback(viewer)
    /\ UNCHANGED pipeline

\* an active interval timer fires
IntervalFires ==
    /\ viewer.timers # {}
    /\ viewer' = tickForward(viewer)
    /\ UNCHANGED pipeline

\* the browser runs a scheduled animation-frame callback
AnimationFrame ==
    /\ \E h \in viewer.frames : viewer' = applyShow(viewer, h)
    /\ UNCHANGED pipeline

\* an image that applyShow started loading has loaded
TempLoads ==
    /\ \E url \in viewer.temps : viewer' = tempOnload(viewer, url)
    /\ UNCHANGED pipeline

TempFails ==
    /\ \E url \in viewer.temps : viewer' = tempOnerror(viewer, url)
    /\ UNCHANGED pipeline

\* an image that prefetchAround put into the cache has loaded
PrefetchLoads ==
    /\ \E e \in viewer.cache :
          /\ ~e.complete
          /\ viewer' = [viewer EXCEPT !.cache = CacheSet(@, e.url, TRUE)]
    /\ UNCHANGED pipeline

NextViewer ==
    \/ ManifestArrives
    \/ ManifestFails
    \/ SliderInput
    \/ KeyDown
    \/ WeekItemClick
    \/ SpeedChange
    \/ PlayClick
    \/ IntervalFires
    \/ AnimationFrame
    \/ TempLoads
    \/ TempFails
    \/ PrefetchLoads

SpecViewer == Init /\ [][NextViewer]_vars

\* the interval timer keeps firing while it is active, and the browser runs
\* every scheduled animation-frame callback
SpecViewerFair == SpecViewer /\ WF_vars(IntervalFires) /\ WF_vars(AnimationFrame)

(* ------------------------------------------------------------------ *)
(* The viewer script: properties                                        *)
(* ------------------------------------------------------------------ *)
ManifestLoaded == viewer.manifest # NoManifest
MaxCount == MaxImages
\* image k (counted from 0) of week w (counted from 0) exists in the manifest
HasImage(w, k) ==
    /\ ManifestLoaded
    /\ w < Len(viewer.manifest)
    /\ k < Len(viewer.manifest[w + 1].images)
\* the viewer is on image k of week w and has asked to show it
OnImage(w, k) ==
    /\ viewer.weekIndex = w
    /\ viewer.images = viewer.manifest[w + 1].images
    /\ viewer.slider.value = k + 1
    /\ viewer.pendingIndex = k

\* C24: while playing, playback comes to every image of every week of the
\* manifest (passing from the last image of a week to the first image of the
\* next week, and from the newest week to the oldest), unless it is stopped.
C24_PlaybackVisitsAll ==
    \A w \in 0..(MaxWeeks - 1) : \A k \in 0..(MaxCount - 1) :
        [](( viewer.playing /\ HasImage(w, k) ) => <>( ~viewer.playing \/ OnImage(w, k) ))

\* C25: applyShow never reads images[idx] outside 0 <= idx < images.length.
C25_ReadsInRange == viewer.note # "threw"

\* no image load and no animation-frame callback is pending, and none failed
Quiescent ==
    /\ ManifestLoaded
    /\ viewer.temps = {}
    /\ viewer.frames = {}
    /\ viewer.note \notin {"loadError", "threw"}
\* the image of the index requested last, in the week that is loaded
RequestedUrl ==
    viewer.images[Minimum(Maximum(0, viewer.pendingIndex), Len(viewer.images) - 1) + 1].raw

\* C26: when every image load has completed (and none failed), the image
\* displayed is the one of the index requested last in the loaded week.
C26_ShowsLatestRequest ==
    (Quiescent /\ viewer.images # <<>> /\ viewer.pendingIndex # NoIndex)
        => viewer.imgSrc = RequestedUrl

\* C27: playing is true exactly when playTimer holds a timer, that timer is
\* the only interval timer of the page, and without it there is none.
C27_PlayingIffTimer ==
    /\ viewer.playing <=> (viewer.playTimer # NoHandle)
    /\ Cardinality(viewer.timers) <= 1
    /\ viewer.timers = IF viewer.playTimer # NoHandle THEN {viewer.playTimer} ELSE {}

\* C27 witness: playback runs on its one timer after an earlier playback was
\* stopped by a navigation event and a request of that time was applied.
C27_Witness ==
    /\ viewer.playing
    /\ viewer.timers = {viewer.playTimer}
    /\ viewer.note = "navStopped"
    /\ viewer.weekIndex = 0
    /\ Len(viewer.manifest) = MaxWeeks

\* C28: at most one animation-frame callback is scheduled, rafId is non-zero
\* exactly while one is, and when none is scheduled the index applied last is
\* the one requested last.
C28_RequestsCoalesced ==
    /\ Cardinality(viewer.frames) <= 1
    /\ (viewer.rafId # NoHandle) <=> (viewer.frames # {})
    /\ viewer.frames = {} => viewer.lastApplied = viewer.pendingIndex

\* C28 witness: a callback has run for which an earlier requested index had
\* been replaced by a later one, and it applied the later one.
C28_Witness ==
    /\ viewer.note = "coalesced"
    /\ viewer.frames = {}
    /\ viewer.lastApplied = viewer.pendingIndex
    /\ viewer.lastApplied = 1

\* a slider input, an arrow key with a non-empty image list, or the choice of
\* a week in the menu
ManualNavigation ==
    \/ \E value \in 1..viewer.slider.max :
          value # viewer.slider.value /\ viewer' = sliderInput(viewer, value)
    \/ /\ viewer.images # <<>>
       /\ \E key \in {"ArrowLeft", "ArrowRight"} : viewer' = keydown(viewer, key)
    \/ /\ ManifestLoaded
       /\ \E k \in 0..(Len(viewer.manifest) - 1) : viewer' = weekItemClick(viewer, k)

\* C29: every manual navigation event leaves playback stopped, without a
\* timer, and the slider value within 1..max(1, images.length).
C29_ManualStopsPlayback ==
    [][\/ /\ ~viewer'.playing
          /\ viewer'.playTimer = NoHandle
          /\ viewer'.timers = {}
          /\ viewer'.slider.value \in 1..Maximum(1, Len(viewer'.images))
       \/ ~ManualNavigation]_vars

\* C29 witness: a running playback was stopped by a navigation event that
\* left the slider on the second image.
C29_Witness ==
    /\ viewer.note = "navStopped"
    /\ ~viewer.playing
    /\ viewer.timers = {}
    /\ viewer.slider.value = 2
    /\ viewer.pendingIndex = 1

====
